---- MODULE Spec2Model ----
(***************************************************************************)
(* KORE desktop overlay: the Electron main process (main.js) and the       *)
(* preload bridge (preload.js).                                            *)
(*                                                                         *)
(* Two components are modelled:                                            *)
(*   - the window visibility controller: window creation, the global       *)
(*     hotkey, the 'minimize-window' / 'close-window' bridge commands, the *)
(*     window 'close' event and the before-quit / will-quit lifecycle;     *)
(*   - the chat relay: the 'chat-request' handler with its two awaits      *)
(*     (fetch, response.json) and its try/catch normalisation.             *)
(***************************************************************************)
EXTENDS Integers, Sequences, FiniteSets, TLC

\* ------------------------------------------------------------------ bounds

\* Number of sendChat invocations the display process may have outstanding
\* or completed (call slots).
MaxCalls == 2

\* Longest run of consecutive hotkey presses that is counted.
MaxToggles == 4

Calls == 1..MaxCalls

\* ------------------------------------------------------- JavaScript values

\* A JavaScript value that is either undefined or a string.
Undefined == [t |-> "undefined", v |-> ""]
Str(s) == [t |-> "string", v |-> s]

\* Strings the display process passes as message and as apiKey.
Messages == {"", "hi"}
ApiKeys == {"sk-1", "sk-2"}

\* Reply texts and upstream error messages that occur in response bodies.
Contents == {"", "Hello!"}
ErrorMessages == {"", "Invalid API key"}

\* HTTP statuses of an upstream response (one 2xx, one non-2xx).
Statuses == {200, 401}

IsOk(status) == status >= 200 /\ status < 300

\* The 'error' member of a parsed body: absent, an object without a message,
\* or an object with a message string.
NoError == [present |-> FALSE, message |-> Undefined]
ErrorValues ==
    {NoError, [present |-> TRUE, message |-> Undefined]}
      \cup {[present |-> TRUE, message |-> Str(m)] : m \in ErrorMessages}

\* The 'choices' member of a parsed body, by how much of the path
\* choices[0].message.content exists:
\*   depth 0: choices missing          depth 1: choices[0] missing
\*   depth 2: choices[0].message missing
\*   depth 3: choices[0].message.content missing
\*   depth 4: content present
ChoicesValues ==
    {[depth |-> d, content |-> Undefined] : d \in 0..3}
      \cup {[depth |-> 4, content |-> Str(c)] : c \in Contents}

\* Response bodies: text that is not JSON, or a JSON object.
Unparsable == [json |-> FALSE, error |-> NoError,
               choices |-> [depth |-> 0, content |-> Undefined]]
Bodies ==
    {Unparsable}
      \cup {[json |-> TRUE, error |-> e, choices |-> c] :
               e \in ErrorValues, c \in ChoicesValues}

\* The inputs and replies used when calls overlap: one message, one key, and
\* one reply of each kind.
SysMessages == {"hi"}
SysApiKeys == {"sk-1"}
SysStatuses == {200}
SysBodies ==
    {Unparsable,
     [json |-> TRUE, error |-> NoError,
      choices |-> [depth |-> 4, content |-> Str("Hello!")]],
     [json |-> TRUE, error |-> [present |-> TRUE,
                                message |-> Str("Invalid API key")],
      choices |-> [depth |-> 0, content |-> Undefined]]}

\* ----------------------------------------------------------------- state

VARIABLES
    appPhase,         \* lifecycle of the main process
    mainWindow,       \* the BrowserWindow: exists, shown, minimized, focused
    isQuitting,       \* app.isQuitting
    hotkeyRegistered, \* CommandOrControl+Space is bound to the toggle callback
    registrationLogged, \* 'Registration failed' was written to the console
    minimizedIsVisible, \* host: isVisible() of a shown, minimized window
    lastEvent,        \* history: the handler that ran last
    toggleRun,        \* history: hotkey presses since the last other event
    runBase,          \* history: isVisible() when the current run started
    calls             \* the chat-request invocations, per call slot

vars == <<appPhase, mainWindow, isQuitting, hotkeyRegistered,
          registrationLogged, minimizedIsVisible, lastEvent, toggleRun,
          runBase, calls>>

windowVars == <<appPhase, mainWindow, isQuitting, hotkeyRegistered,
                registrationLogged, minimizedIsVisible>>

\* ---------------------------------------------------------------- window

NoWindow == [exists |-> FALSE, shown |-> FALSE, minimized |-> FALSE,
             focused |-> FALSE]

\* new BrowserWindow({...}): no 'show: false', so the window starts shown.
NewWindow == [exists |-> TRUE, shown |-> TRUE, minimized |-> FALSE,
              focused |-> TRUE]

\* mainWindow.isVisible()
isVisible(w) == w.exists /\ w.shown /\ (minimizedIsVisible \/ ~w.minimized)

\* A hide() that shows a window that is already hidden.
hideOrShow(w) == [w EXCEPT !.shown = ~w.shown, !.focused = ~w.shown]

\* A hide() that does nothing.
hideNothing(w) == w

\* mainWindow.hide()
hide(w) == [w EXCEPT !.shown = FALSE, !.focused = FALSE]

\* mainWindow.show(); mainWindow.focus()
showAndFocus(w) == [w EXCEPT !.shown = TRUE, !.minimized = FALSE,
                             !.focused = TRUE]

\* A minimize() that hides the window.
minimizeByHiding(w) == [w EXCEPT !.shown = FALSE, !.focused = FALSE]

\* mainWindow.minimize()
minimize(w) == [w EXCEPT !.minimized = TRUE, !.focused = FALSE]

\* The host restores the minimized window (its taskbar button is clicked).
restore(w) == [w EXCEPT !.minimized = FALSE, !.focused = TRUE]

\* A hotkey callback that shows the window whatever its state.
toggleAlwaysShow(w) == showAndFocus(w)

\* The callback registered for the global shortcut.
toggleCallback(w) == IF isVisible(w) THEN hide(w) ELSE showAndFocus(w)

\* A 'close' listener that never calls event.preventDefault().
closePreventedNever(quitting) == FALSE

\* A 'close' listener that always calls event.preventDefault().
closePreventedAlways(quitting) == TRUE

\* The window 'close' listener: TRUE when it calls event.preventDefault().
closePrevented(quitting) == ~quitting

\* The window after a 'close' event has been handled.
afterClose(w, quitting) ==
    IF closePrevented(quitting) THEN hide(w) ELSE NoWindow

\* app.on('window-all-closed'): TRUE when the listener calls app.quit();
\* darwin is process.platform === 'darwin'.
windowAllClosedQuits(darwin) == ~darwin

\* A will-quit listener that leaves the shortcut registered.
unregisterNothing(registered) == registered

\* globalShortcut.unregisterAll(): whether the shortcut is registered after.
unregisterAll(registered) == FALSE

\* ------------------------------------------------------------ chat relay

Endpoint == "https://openrouter.ai/api/v1/chat/completions"

\* A request whose Authorization header is the key without its scheme.
buildRequestRawKey(message, apiKey) ==
    [url |-> Endpoint,
     method |-> "POST",
     authorization |-> apiKey,
     model |-> "openai/gpt-3.5-turbo",
     messages |-> <<[role |-> "user", content |-> message]>>]

\* The request the handler passes to fetch for (message, apiKey).
buildRequest(message, apiKey) ==
    [url |-> Endpoint,
     method |-> "POST",
     authorization |-> "Bearer " \o apiKey,
     model |-> "openai/gpt-3.5-turbo",
     messages |-> <<[role |-> "user", content |-> message]>>]

\* The two shapes the handler returns.
Success(m) == [success |-> TRUE, message |-> m, error |-> Undefined]
Failure(e) == [success |-> FALSE, message |-> Undefined, error |-> e]

\* Messages of the errors the runtime raises inside the try block.
NetworkErrorMessage ==
    "request to " \o Endpoint \o " failed, reason: connect ECONNREFUSED"
JsonErrorMessage ==
    "invalid json response body at " \o Endpoint
      \o " reason: Unexpected token < in JSON at position 0"
TypeErrorMessage(property) ==
    "Cannot read properties of undefined (reading '" \o property \o "')"

\* JavaScript  v || d  for v undefined or a string.
orDefault(v, d) == IF v = Undefined \/ v = Str("") THEN d ELSE v

\* Outcomes of a block of code: it returns a value or throws an Error.
Return(value) == [thrown |-> FALSE, value |-> value, message |-> Undefined]
Throw(message) == [thrown |-> TRUE, value |-> Undefined, message |-> message]

\* An error check that drops the upstream message.
errorCheckGeneric(data) ==
    IF data.error.present THEN Throw(Str("API Error")) ELSE Return(Undefined)

\* if (data.error) throw new Error(data.error.message || 'API Error')
errorCheck(data) ==
    IF data.error.present
    THEN Throw(orDefault(data.error.message, Str("API Error")))
    ELSE Return(Undefined)

\* A read of the content that substitutes a text for an empty one.
readContentOrDefault(data) ==
    IF data.choices.depth = 4
    THEN Return(orDefault(data.choices.content, Str("No response")))
    ELSE Throw(Str(TypeErrorMessage("0")))

\* data.choices[0].message.content
readContent(data) ==
    CASE data.choices.depth = 0 -> Throw(Str(TypeErrorMessage("0")))
      [] data.choices.depth = 1 -> Throw(Str(TypeErrorMessage("message")))
      [] data.choices.depth = 2 -> Throw(Str(TypeErrorMessage("content")))
      [] OTHER -> Return(data.choices.content)

\* The try block from the parsed body on: the error check, then the return
\* of { success: true, message: ... }.
afterJson(data) ==
    IF errorCheck(data).thrown
    THEN errorCheck(data)
    ELSE IF readContent(data).thrown
         THEN readContent(data)
         ELSE Return(Success(readContent(data).value))

\* await response.json() followed by the rest of the try block.
afterResponse(body) ==
    IF body.json THEN afterJson(body) ELSE Throw(Str(JsonErrorMessage))

\* The catch clause: a thrown Error becomes { success: false, error }.
catchError(outcome) ==
    IF outcome.thrown THEN Failure(outcome.message) ELSE outcome.value

\* ------------------------------------------------------------------ Init

\* A call slot: pc is idle, fetch (awaiting fetch), json (awaiting
\* response.json()) or done; requests counts the outbound requests issued,
\* results the values the invoke promise was resolved with.
NoRequest == [url |-> "", method |-> "", authorization |-> "", model |-> "",
              messages |-> <<>>]
NoResult == [success |-> FALSE, message |-> Undefined, error |-> Undefined]
IdleCall == [pc |-> "idle", message |-> "", apiKey |-> "",
             request |-> NoRequest, requests |-> 0,
             failed |-> FALSE, status |-> 0, body |-> Unparsable,
             result |-> NoResult, results |-> 0]

Init ==
    /\ appPhase = "launching"
    /\ mainWindow = NoWindow
    /\ isQuitting = FALSE
    /\ hotkeyRegistered = FALSE
    /\ registrationLogged = FALSE
    /\ minimizedIsVisible \in BOOLEAN
    /\ lastEvent = "none"
    /\ toggleRun = 0
    /\ runBase = FALSE
    /\ calls = [c \in Calls |-> IdleCall]

\* History bookkeeping of every event other than a hotkey press.
Record(ev) ==
    /\ lastEvent' = ev
    /\ toggleRun' = 0
    /\ runBase' = isVisible(mainWindow')

\* The event loop of the main process dispatches events and continuations:
\* from the window's creation until the last window has closed, after which
\* the host runs will-quit and ends the process.
Dispatching == appPhase \in {"running", "quitting"}

\* app.whenReady().then(...): create the window, register the shortcut; ret
\* is what globalShortcut.register returns.
WhenReady ==
    /\ appPhase = "launching"
    /\ \E ret \in BOOLEAN :
         /\ hotkeyRegistered' = ret
         /\ registrationLogged' = ~ret
    /\ mainWindow' = NewWindow
    /\ appPhase' = "running"
    /\ UNCHANGED <<isQuitting, minimizedIsVisible, calls>>
    /\ Record("ready")

\* A hotkey callback that also clears the quit flag.
ToggleCancelsQuit ==
    /\ Dispatching
    /\ hotkeyRegistered
    /\ toggleRun < MaxToggles
    /\ mainWindow' = IF mainWindow.exists
                     THEN toggleCallback(mainWindow)
                     ELSE mainWindow
    /\ isQuitting' = FALSE
    /\ lastEvent' = "toggle"
    /\ toggleRun' = toggleRun + 1
    /\ UNCHANGED <<appPhase, hotkeyRegistered, registrationLogged,
                   minimizedIsVisible, runBase, calls>>

\* The user presses the global shortcut. The callback does not test the
\* window: on a destroyed window isVisible() throws and nothing changes.
Toggle ==
    /\ Dispatching
    /\ hotkeyRegistered
    /\ toggleRun < MaxToggles
    /\ mainWindow' = IF mainWindow.exists
                     THEN toggleCallback(mainWindow)
                     ELSE mainWindow
    /\ lastEvent' = "toggle"
    /\ toggleRun' = toggleRun + 1
    /\ UNCHANGED <<appPhase, isQuitting, hotkeyRegistered, registrationLogged,
                   minimizedIsVisible, runBase, calls>>

\* ipcMain.on('minimize-window')
MinimizeWindow ==
    /\ Dispatching
    /\ mainWindow.exists
    /\ mainWindow' = minimize(mainWindow)
    /\ UNCHANGED <<appPhase, isQuitting, hotkeyRegistered, registrationLogged,
                   minimizedIsVisible, calls>>
    /\ Record("minimize-window")

\* A 'close-window' handler that also aborts the pending chat requests.
CloseWindowAborts ==
    /\ Dispatching
    /\ mainWindow.exists
    /\ mainWindow' = hide(mainWindow)
    /\ calls' = [c \in Calls |->
                   IF calls[c].pc \in {"fetch", "json"}
                   THEN [calls[c] EXCEPT
                           !.pc = "done",
                           !.failed = TRUE,
                           !.result = Failure(Str("The user aborted a request.")),
                           !.results = @ + 1]
                   ELSE calls[c]]
    /\ UNCHANGED <<appPhase, isQuitting, hotkeyRegistered, registrationLogged,
                   minimizedIsVisible>>
    /\ Record("close-window")

\* ipcMain.on('close-window')
CloseWindow ==
    /\ Dispatching
    /\ mainWindow.exists
    /\ mainWindow' = hide(mainWindow)
    /\ UNCHANGED <<appPhase, isQuitting, hotkeyRegistered, registrationLogged,
                   minimizedIsVisible, calls>>
    /\ Record("close-window")

\* skipTaskbar is false: the user restores the minimized window from the
\* taskbar. No handler of the program runs.
Restore ==
    /\ Dispatching
    /\ mainWindow.exists
    /\ mainWindow.shown
    /\ mainWindow.minimized
    /\ mainWindow' = restore(mainWindow)
    /\ UNCHANGED <<appPhase, isQuitting, hotkeyRegistered, registrationLogged,
                   minimizedIsVisible, calls>>
    /\ Record("restore")

\* mainWindow.on('close'): the host asks the window to close (Alt+F4, the
\* window menu, or the quit sequence closing all windows).
\* When the last window closes outside a quit the host emits
\* 'window-all-closed' in the same turn; where its listener calls app.quit(),
\* 'before-quit' sets the flag and, no window being left, will-quit follows.
CloseEvent ==
    /\ Dispatching
    /\ mainWindow.exists
    /\ mainWindow' = afterClose(mainWindow, isQuitting)
    /\ \E darwin \in BOOLEAN :
         LET closed == ~mainWindow'.exists
             quits == closed /\ ~isQuitting /\ windowAllClosedQuits(darwin)
         IN  /\ isQuitting' = (isQuitting \/ quits)
             /\ appPhase' = IF closed /\ (isQuitting \/ quits)
                            THEN "windows-closed"
                            ELSE appPhase
    /\ UNCHANGED <<hotkeyRegistered, registrationLogged,
                   minimizedIsVisible, calls>>
    /\ Record("close")

\* app.on('before-quit'): a shutdown request (app.quit(), Cmd+Q, session
\* end) has been made.
BeforeQuit ==
    /\ appPhase = "running"
    /\ isQuitting' = TRUE
    /\ appPhase' = IF mainWindow.exists THEN "quitting" ELSE "windows-closed"
    /\ UNCHANGED <<mainWindow, hotkeyRegistered, registrationLogged,
                   minimizedIsVisible, calls>>
    /\ Record("before-quit")

\* app.on('will-quit'): all windows are closed and the quit proceeds.
WillQuit ==
    /\ appPhase = "windows-closed"
    /\ hotkeyRegistered' = unregisterAll(hotkeyRegistered)
    /\ appPhase' = "will-quit-done"
    /\ UNCHANGED <<mainWindow, isQuitting, registrationLogged,
                   minimizedIsVisible, calls>>
    /\ Record("will-quit")

\* The process ends after will-quit.
Exit ==
    /\ appPhase = "will-quit-done"
    /\ appPhase' = "exited"
    /\ UNCHANGED <<mainWindow, isQuitting, hotkeyRegistered,
                   registrationLogged, minimizedIsVisible, calls>>
    /\ Record("exit")

\* A handler that answers an empty message itself, without a request.
SendChatValidated(c, messages, apiKeys) ==
    /\ Dispatching
    /\ mainWindow.exists
    /\ calls[c].pc = "idle"
    /\ \E message \in messages, apiKey \in apiKeys :
         calls' = [calls EXCEPT ![c] =
                     IF message = ""
                     THEN [@ EXCEPT !.pc = "done",
                                    !.message = message,
                                    !.apiKey = apiKey,
                                    !.failed = TRUE,
                                    !.result = Failure(Str("Empty message")),
                                    !.results = @ + 1]
                     ELSE [@ EXCEPT !.pc = "fetch",
                                    !.message = message,
                                    !.apiKey = apiKey,
                                    !.request = buildRequest(message, apiKey),
                                    !.requests = @ + 1]]
    /\ lastEvent' = "chat-request"
    /\ toggleRun' = 0
    /\ runBase' = isVisible(mainWindow)
    /\ UNCHANGED windowVars

\* electronAPI.sendChat(message, apiKey): ipcRenderer.invoke runs the
\* 'chat-request' handler up to its first await, which issues the request.
SendChat(c, messages, apiKeys) ==
    /\ Dispatching
    /\ mainWindow.exists
    /\ calls[c].pc = "idle"
    /\ \E message \in messages, apiKey \in apiKeys :
         calls' = [calls EXCEPT ![c] =
                     [@ EXCEPT !.pc = "fetch",
                               !.message = message,
                               !.apiKey = apiKey,
                               !.request = buildRequest(message, apiKey),
                               !.requests = @ + 1]]
    /\ lastEvent' = "chat-request"
    /\ toggleRun' = 0
    /\ runBase' = isVisible(mainWindow)
    /\ UNCHANGED windowVars

\* A handler that issues the request a second time after a first failure.
fetchRejectedRetry(call) ==
    IF call.requests < 2
    THEN [call EXCEPT !.requests = @ + 1]
    ELSE [call EXCEPT !.pc = "done",
                      !.failed = TRUE,
                      !.result = catchError(Throw(Str(NetworkErrorMessage))),
                      !.results = @ + 1]

\* The handler once fetch has rejected: the catch clause returns the
\* failure to the caller.
fetchRejected(call) ==
    [call EXCEPT !.pc = "done",
                 !.failed = TRUE,
                 !.result = catchError(Throw(Str(NetworkErrorMessage))),
                 !.results = @ + 1]

\* The handler once fetch has resolved with a response of this status:
\* it goes on to await response.json().
fetchResolved(call, status) ==
    [call EXCEPT !.pc = "json", !.status = status]

\* The fetch promise settles: the transport fails, or a response arrives.
FetchSettles(c, statuses) ==
    /\ Dispatching
    /\ calls[c].pc = "fetch"
    /\ \/ calls' = [calls EXCEPT ![c] = fetchRejected(@)]
       \/ \E status \in statuses :
            calls' = [calls EXCEPT ![c] = fetchResolved(@, status)]
    /\ lastEvent' = "fetch-settled"
    /\ toggleRun' = 0
    /\ runBase' = isVisible(mainWindow)
    /\ UNCHANGED windowVars

\* The handler once response.json() has settled on this body: the rest of
\* the try block and the catch clause, up to the return.
jsonSettled(call, body) ==
    [call EXCEPT !.pc = "done",
                 !.body = body,
                 !.result = catchError(afterResponse(body)),
                 !.results = @ + 1]

\* A handler that keeps the parsed body in a variable shared by all calls:
\* a call that settles after another one returns that other call's result.
JsonSettlesShared(c, bodies) ==
    /\ Dispatching
    /\ calls[c].pc = "json"
    /\ \E body \in bodies :
         LET others == {d \in Calls : d # c /\ calls[d].pc = "done"}
             mine == jsonSettled(calls[c], body)
         IN  calls' = [calls EXCEPT ![c] =
                         IF others = {}
                         THEN mine
                         ELSE [mine EXCEPT !.result =
                                  calls[CHOOSE d \in others : TRUE].result]]
    /\ lastEvent' = "json-settled"
    /\ toggleRun' = 0
    /\ runBase' = isVisible(mainWindow)
    /\ UNCHANGED windowVars

\* The response.json() promise settles.
JsonSettles(c, bodies) ==
    /\ Dispatching
    /\ calls[c].pc = "json"
    /\ \E body \in bodies :
         calls' = [calls EXCEPT ![c] = jsonSettled(@, body)]
    /\ lastEvent' = "json-settled"
    /\ toggleRun' = 0
    /\ runBase' = isVisible(mainWindow)
    /\ UNCHANGED windowVars

\* Events of the visibility controller and of the application lifecycle.
WindowNext ==
    \/ WhenReady
    \/ Toggle
    \/ MinimizeWindow
    \/ CloseWindow
    \/ Restore
    \/ CloseEvent
    \/ BeforeQuit
    \/ WillQuit
    \/ Exit

\* The whole program, with overlapping calls over a small set of inputs
\* and replies.
Next ==
    \/ WindowNext
    \/ \E c \in Calls : SendChat(c, SysMessages, SysApiKeys)
    \/ \E c \in Calls : FetchSettles(c, SysStatuses)
    \/ \E c \in Calls : JsonSettles(c, SysBodies)

Spec == Init /\ [][Next]_vars

\* What the host guarantees: a settled promise's continuation is run, a quit
\* that has begun closes the window, then runs will-quit and ends the
\* process.
Fairness ==
    /\ \A c \in Calls : WF_vars(FetchSettles(c, SysStatuses))
    /\ \A c \in Calls : WF_vars(JsonSettles(c, SysBodies))
    /\ WF_vars(isQuitting /\ CloseEvent)
    /\ WF_vars(WillQuit)
    /\ WF_vars(Exit)

FairSpec == Spec /\ Fairness

\* The whole program, with one call at a time in slot 1 over every input
\* and every reply.
RelayNext ==
    \/ WindowNext
    \/ SendChat(1, Messages, ApiKeys)
    \/ FetchSettles(1, Statuses)
    \/ JsonSettles(1, Bodies)

RelaySpec == Init /\ [][RelayNext]_vars

\* ------------------------------------------------------------- properties

\* Visible / Hidden, as the hotkey callback reads it.
Visible == isVisible(mainWindow)
Hidden == mainWindow.exists /\ ~isVisible(mainWindow)

\* C1: with quit-intent unset, after n hotkey presses and nothing else from
\* a Hidden window the window is Visible exactly when n is odd; and after
\* an even number of presses from any window it is back in the
\* Visible/Hidden state the run started in.
C1_ToggleParity ==
    (~isQuitting /\ mainWindow.exists) =>
        /\ ~runBase => (Visible <=> toggleRun % 2 = 1)
        /\ toggleRun % 2 = 0 => (Visible <=> runBase)

\* Three presses from Hidden have left the window Visible.
C1_Witness ==
    /\ ~isQuitting
    /\ ~runBase
    /\ toggleRun = 3
    /\ lastEvent = "toggle"
    /\ Visible

\* C2: a 'close-window' command or a window 'close' event handled while
\* quit-intent is unset leaves the window Hidden (it still exists) and the
\* process running.
C2_CloseHides ==
    [][(lastEvent' \in {"close-window", "close"} /\ ~isQuitting) =>
          /\ mainWindow'.exists
          /\ ~isVisible(mainWindow')
          /\ appPhase' = "running"]_vars

\* A 'close' event was handled with quit-intent unset: the window is Hidden.
C2_Witness ==
    /\ lastEvent = "close"
    /\ ~isQuitting
    /\ Hidden
    /\ appPhase = "running"

\* C3 as stated: with quit-intent set, a 'close-window' command and a window
\* 'close' event alike make the close proceed (the window is closed).
C3_Original ==
    [][(lastEvent' \in {"close-window", "close"} /\ isQuitting) =>
          ~mainWindow'.exists]_vars

\* C3 as amended: with quit-intent set, a window 'close' event is not
\* prevented, the window is closed and the process then terminates; a
\* 'close-window' command hides the window and closes nothing, whatever the
\* quit-intent.
C3_CloseProceeds ==
    /\ [][(lastEvent' = "close" /\ isQuitting) =>
             /\ ~mainWindow'.exists
             /\ appPhase' = "windows-closed"]_vars
    /\ [][lastEvent' = "close-window" =>
             /\ mainWindow'.exists
             /\ ~isVisible(mainWindow')
             /\ appPhase' = appPhase]_vars
    /\ (appPhase = "windows-closed") ~> (appPhase = "exited")

\* The window was closed by a 'close' event during a quit.
C3_Witness ==
    /\ lastEvent = "close"
    /\ isQuitting
    /\ ~mainWindow.exists

\* A call whose exchange ended with this parsed JSON body.
Parsed(c) == calls[c].pc = "done" /\ ~calls[c].failed /\ calls[c].body.json

\* A Failure result with a non-empty error message.
IsFailure(r) ==
    /\ ~r.success
    /\ r.error.t = "string"
    /\ r.error.v # ""

\* C4: a response with a non-2xx status ends in a Failure result, whatever
\* its body.
C4_NonOkFails ==
    \A c \in Calls :
        (calls[c].pc = "done" /\ ~calls[c].failed /\ ~IsOk(calls[c].status))
            => IsFailure(calls[c].result)

\* A non-2xx response whose body carried a reply text was returned as a
\* success.
C4_Witness ==
    \E c \in Calls :
        /\ Parsed(c)
        /\ ~IsOk(calls[c].status)
        /\ calls[c].body.choices.content = Str("Hello!")
        /\ calls[c].result = Success(Str("Hello!"))

\* C5: a JSON body without an error object in which choices, choices[0],
\* choices[0].message or choices[0].message.content is missing ends in a
\* Failure result with an error message.
C5_MissingFieldFails ==
    \A c \in Calls :
        (Parsed(c) /\ ~calls[c].body.error.present
                   /\ calls[c].body.choices.depth < 4)
            => IsFailure(calls[c].result)

\* C6: a JSON body without an error object whose choices[0].message.content
\* is the string text ends in { success: true, message: text }.
C6_ContentReturned ==
    \A c \in Calls :
        (Parsed(c) /\ ~calls[c].body.error.present
                   /\ calls[c].body.choices.depth = 4)
            => calls[c].result = Success(calls[c].body.choices.content)

\* A reply text was returned unchanged as a success.
C6_Witness ==
    \E c \in Calls :
        /\ Parsed(c)
        /\ ~calls[c].body.error.present
        /\ calls[c].body.choices.content = Str("Hello!")
        /\ calls[c].result.success
        /\ calls[c].result.message = Str("Hello!")

\* C7 as stated: a body with an error object ends in a Failure whose message
\* is error.message whenever that member is present, and "API Error" when
\* the object has no message.
C7_Original ==
    \A c \in Calls :
        (Parsed(c) /\ calls[c].body.error.present)
            => calls[c].result =
                 Failure(IF calls[c].body.error.message # Undefined
                         THEN calls[c].body.error.message
                         ELSE Str("API Error"))

\* C7 as amended: a body with an error object ends in a Failure whose
\* message is error.message when that is a non-empty string, and "API Error"
\* when the object has no message or an empty one; choices are ignored.
C7_ErrorMessage ==
    \A c \in Calls :
        (Parsed(c) /\ calls[c].body.error.present)
            => calls[c].result =
                 Failure(IF calls[c].body.error.message \in
                              {Undefined, Str("")}
                         THEN Str("API Error")
                         ELSE calls[c].body.error.message)

\* A body with both an error message and a reply text gave the upstream
\* message as the failure.
C7_Witness ==
    \E c \in Calls :
        /\ Parsed(c)
        /\ calls[c].body.error = [present |-> TRUE,
                                  message |-> Str("Invalid API key")]
        /\ calls[c].body.choices.depth = 4
        /\ calls[c].result = Failure(Str("Invalid API key"))

\* The exchange of a finished call failed: the transport failed, the body
\* was no JSON, it held an error object, or an expected field was missing.
ExchangeFailed(c) ==
    /\ calls[c].pc = "done"
    /\ \/ calls[c].failed
       \/ ~calls[c].body.json
       \/ calls[c].body.error.present
       \/ calls[c].body.choices.depth < 4

\* C8: every failed exchange resolves the call with a Failure result whose
\* error message is non-empty.
C8_FailureNormalised ==
    \A c \in Calls : ExchangeFailed(c) => IsFailure(calls[c].result)

\* The value a finished call returned has one of the two result shapes.
Structured(r) ==
    \/ r.success /\ r.error = Undefined
    \/ ~r.success /\ r.message = Undefined /\ r.error.t = "string"

\* C9: a call issues exactly one outbound request, whatever the outcome,
\* and resolves exactly once with a structured result; a pending call whose
\* transport answers or fails is resolved as long as its caller's window
\* exists.
C9_OneRequestOneResult ==
    /\ [](\A c \in Calls :
            /\ calls[c].requests = (IF calls[c].pc = "idle" THEN 0 ELSE 1)
            /\ calls[c].results = (IF calls[c].pc = "done" THEN 1 ELSE 0)
            /\ calls[c].pc = "done" => Structured(calls[c].result))
    /\ \A c \in Calls :
         (calls[c].pc \in {"fetch", "json"}) ~>
             (calls[c].pc = "done" \/ ~mainWindow.exists)

\* A call whose transport failed has finished with one request and one
\* Failure result.
C9_Witness ==
    \E c \in Calls :
        /\ calls[c].pc = "done"
        /\ calls[c].failed
        /\ calls[c].requests = 1
        /\ calls[c].results = 1
        /\ ~calls[c].result.success

\* The commands the display process can send over the bridge.
BridgeCommand ==
    \/ MinimizeWindow
    \/ CloseWindow
    \/ \E c \in Calls : SendChat(c, SysMessages, SysApiKeys)

\* C10 as stated: after a failed registration, while the application runs,
\* toggle() can still be invoked without the hotkey: some bridge command
\* hides the window when it is shown and shows it when it is hidden.
C10_Original ==
    (registrationLogged /\ appPhase = "running") =>
        ENABLED (BridgeCommand /\ mainWindow'.shown # mainWindow.shown)

\* C10 as amended: a failed registration is logged and the application
\* runs on; minimize() and sendChat stay invocable over the bridge and do
\* their work; toggle() has no path but the hotkey: the bridge can hide a
\* shown window, and a window hidden after a failed registration is never
\* shown again.
C10_WithoutHotkey ==
    /\ [](registrationLogged => ~hotkeyRegistered)
    /\ [][(lastEvent' = "ready" /\ ~hotkeyRegistered') =>
             /\ registrationLogged'
             /\ appPhase' = "running"
             /\ mainWindow'.exists]_vars
    /\ []((registrationLogged /\ appPhase = "running") =>
             /\ ENABLED MinimizeWindow
             /\ ENABLED CloseWindow
             /\ \A c \in Calls :
                  calls[c].pc = "idle" =>
                      ENABLED SendChat(c, SysMessages, SysApiKeys))
    /\ [][(registrationLogged /\ lastEvent' = "minimize-window") =>
             mainWindow'.minimized]_vars
    /\ [](registrationLogged =>
             \A c \in Calls : calls[c].pc = "done" =>
                                  Structured(calls[c].result))
    /\ [][(registrationLogged /\ mainWindow.exists /\ ~mainWindow.shown) =>
             ~mainWindow'.shown]_vars

\* After a failed registration a chat call has finished and the window,
\* minimized and then hidden over the bridge, stays hidden.
C10_Witness ==
    /\ registrationLogged
    /\ appPhase = "running"
    /\ mainWindow.minimized
    /\ ~mainWindow.shown
    /\ lastEvent = "close-window"
    /\ \E c \in Calls : calls[c].pc = "done"

\* C11: once will-quit has run, and so once the process has terminated, the
\* global shortcut is no longer registered; the process terminates only
\* after will-quit.
C11_HotkeyReleased ==
    /\ appPhase \in {"will-quit-done", "exited"} => ~hotkeyRegistered
    /\ appPhase = "exited" => lastEvent = "exit"

\* The process has terminated after a start in which the shortcut was
\* registered.
C11_Witness ==
    /\ appPhase = "exited"
    /\ ~registrationLogged
    /\ ~hotkeyRegistered

\* C12: every call, whatever its message and the empty one included, has
\* issued one request carrying that message unchanged, and its result is a
\* success exactly when the upstream reply is a JSON body without an error
\* object whose choices[0].message exists.
C12_NoShortCircuit ==
    \A c \in Calls :
        /\ calls[c].pc # "idle" =>
             /\ calls[c].requests = 1
             /\ calls[c].request.messages =
                    <<[role |-> "user", content |-> calls[c].message]>>
        /\ calls[c].pc = "done" =>
             (calls[c].result.success <=>
                 /\ ~calls[c].failed
                 /\ calls[c].body.json
                 /\ ~calls[c].body.error.present
                 /\ calls[c].body.choices.depth >= 3)

\* A call with the empty message issued its request and returned the
\* upstream reply text.
C12_Witness ==
    \E c \in Calls :
        /\ calls[c].pc = "done"
        /\ calls[c].message = ""
        /\ calls[c].requests = 1
        /\ calls[c].request.messages = <<[role |-> "user", content |-> ""]>>
        /\ calls[c].result = Success(Str("Hello!"))

\* C13: once before-quit has set the quit flag no later step clears it, and
\* the application never returns to its running phase.
C13_QuitMonotonic ==
    [][isQuitting =>
          /\ isQuitting'
          /\ appPhase' \notin {"launching", "running"}]_vars

\* Two hotkey presses were handled after the quit flag was set, and it is
\* still set.
C13_Witness ==
    /\ isQuitting
    /\ appPhase = "quitting"
    /\ lastEvent = "toggle"
    /\ toggleRun = 2

\* The steps of the chat relay.
ChatEvents == {"chat-request", "fetch-settled", "json-settled"}

C15_Original ==
    [][lastEvent' = "minimize-window" =>
          /\ mainWindow'.minimized
          /\ isQuitting' = isQuitting
          /\ isVisible(mainWindow') = isVisible(mainWindow)]_vars

\* C15 as amended: minimize() leaves the window minimized and changes
\* neither the quit flag nor whether the window is shown or hidden by
\* hide(); the value the hotkey callback reads is the host's isVisible():
\* on a host that reports a minimized window as visible it is unchanged and
\* a press right after hides a shown window, on a host that reports it as
\* not visible it becomes false and a press right after shows and restores
\* the window.
C15_MinimizeFrame ==
    /\ [][lastEvent' = "minimize-window" =>
             /\ mainWindow'.exists
             /\ mainWindow'.minimized
             /\ mainWindow'.shown = mainWindow.shown
             /\ isQuitting' = isQuitting
             /\ isVisible(mainWindow') =
                    (isVisible(mainWindow) /\ minimizedIsVisible)]_vars
    /\ [][(lastEvent = "minimize-window" /\ lastEvent' = "toggle") =>
             IF mainWindow.shown /\ minimizedIsVisible
             THEN ~mainWindow'.shown
             ELSE /\ mainWindow'.shown
                  /\ ~mainWindow'.minimized
                  /\ isVisible(mainWindow')]_vars

\* A shown window has been minimized on a host that reports it as not
\* visible: the hotkey callback now reads it as Hidden.
C15_Witness ==
    /\ ~minimizedIsVisible
    /\ lastEvent = "minimize-window"
    /\ mainWindow.shown
    /\ mainWindow.minimized
    /\ Hidden
    /\ ~isQuitting

\* C16: the request of every call is a POST to the endpoint whose
\* Authorization header is "Bearer " followed by the caller's credential,
\* with the fixed model and exactly one message, of role "user" and with the
\* caller's message as content.
C16_RequestShape ==
    \A c \in Calls :
        calls[c].pc # "idle" =>
            /\ calls[c].requests = 1
            /\ calls[c].request.url =
                   "https://openrouter.ai/api/v1/chat/completions"
            /\ calls[c].request.method = "POST"
            /\ calls[c].request.authorization = "Bearer " \o calls[c].apiKey
            /\ calls[c].request.model = "openai/gpt-3.5-turbo"
            /\ Len(calls[c].request.messages) = 1
            /\ calls[c].request.messages[1].role = "user"
            /\ calls[c].request.messages[1].content = calls[c].message

\* A request went out with the second credential and the empty message.
C16_Witness ==
    \E c \in Calls :
        /\ calls[c].pc = "fetch"
        /\ calls[c].apiKey = "sk-2"
        /\ calls[c].message = ""
        /\ calls[c].request.authorization = "Bearer sk-2"
        /\ calls[c].request.messages = <<[role |-> "user", content |-> ""]>>

\* C17: with calls overlapping, every finished call holds the result
\* normalised from the outcome of its own exchange, every started call keeps
\* its one request, and a call can be started whatever the other calls are
\* doing.
C17_OwnReply ==
    \A c \in Calls :
        /\ calls[c].pc = "done" =>
             calls[c].result =
                 (IF calls[c].failed
                  THEN Failure(Str(NetworkErrorMessage))
                  ELSE catchError(afterResponse(calls[c].body)))
        /\ calls[c].pc # "idle" => calls[c].requests = 1
        /\ (calls[c].pc = "idle" /\ Dispatching) =>
             ENABLED SendChat(c, SysMessages, SysApiKeys)

\* The first call was resolved with its reply text while the second, whose
\* response had already arrived, was still pending.
C17_Witness ==
    /\ lastEvent = "json-settled"
    /\ calls[1].pc = "done"
    /\ calls[1].result = Success(Str("Hello!"))
    /\ calls[2].pc = "json"

\* C18 as stated: in every state in which the global shortcut is registered
\* the window exists.
C18_Original == hotkeyRegistered => mainWindow.exists

\* C18 as amended: the shortcut is registered only once the window has been
\* created and stays registered until will-quit, which runs after the
\* window has closed: the only states with the shortcut registered and no
\* window are those between the close of the window and will-quit, in which
\* no hotkey press is dispatched; so the hotkey callback runs only against
\* an existing window, and leaves it existing.
C18_ToggleHasWindow ==
    /\ []((hotkeyRegistered /\ ~mainWindow.exists) =>
             /\ appPhase = "windows-closed"
             /\ isQuitting)
    /\ []((hotkeyRegistered /\ Dispatching) => mainWindow.exists)
    /\ [][lastEvent' = "toggle" =>
             /\ mainWindow.exists
             /\ mainWindow'.exists]_vars

\* The window has closed during a quit and will-quit has not run yet: the
\* shortcut is still registered.
C18_Witness ==
    /\ appPhase = "windows-closed"
    /\ hotkeyRegistered
    /\ ~mainWindow.exists
    /\ lastEvent = "close"

====
